---- MODULE Spec2Model ----
(***************************************************************************)
(* Model of the JSON log processor: the upload handler and the query       *)
(* handler of app.py with get_relevant_chunks, and analyze_logs_with_agent *)
(* of agent.py.  The embedding provider, the Chroma store and the LLM are  *)
(* external services: each of their calls is a nondeterministic choice     *)
(* over the outcomes the call can have.                                    *)
(***************************************************************************)
EXTENDS Integers, Sequences, FiniteSets, TLC

\* ------------------------------------------------------------- bounds
\* longest uploaded array
MaxLen == 2
\* most chunks the persistent collection holds in the model
MaxStore == 3
\* largest value of the "Number of log entries to analyze" slider in the model
MaxK == 2
\* longest chunk list handed to analyze_logs_with_agent by a direct caller
MaxChunks == 2

\* ------------------------------------------------------- JSON values
\* A decoded JSON value: an object with one key, a string or null.
Obj(k, v) == [t |-> "obj", k |-> k, v |-> v]
Str(v) == [t |-> "str", k |-> "", v |-> v]
Null == [t |-> "null", k |-> "", v |-> ""]

\* the log entries an uploaded array is built from
JsonValues == {Obj("level", "ERROR"), Obj("level", "INFO"), Str("timeout")}

\* Python's None
None == "<None>"
\* the API keys of the model
Keys == {"sk-A", "sk-B"}

\* json.dumps(log_entry): the text of a decoded value (separators ", " and ": ")
json_dumps(x) ==
    CASE x.t = "obj" -> "{\"" \o x.k \o "\": \"" \o x.v \o "\"}"
      [] x.t = "str" -> "\"" \o x.v \o "\""
      [] OTHER -> "null"

\* a text nested deeper than the decoder's recursion limit
DeepText == "[[[[[[[[...]]]]]]]]"
\* a log line that is no JSON text
PlainText == "Oct 11 22:14:15 sshd: Failed password"

\* json.loads(doc.page_content): "ok" with the decoded value, or the exception raised
Decoded(v) == [status |-> "ok", value |-> v]
json_loads(text) ==
    CASE text = "{\"level\": \"ERROR\"}" -> Decoded(Obj("level", "ERROR"))
      [] text = "{\"level\":\"ERROR\"}" -> Decoded(Obj("level", "ERROR"))
      [] text = "{\"level\": \"INFO\"}" -> Decoded(Obj("level", "INFO"))
      [] text = "\"timeout\"" -> Decoded(Str("timeout"))
      [] text = "null" -> Decoded(Null)
      [] text = DeepText -> [status |-> "RecursionError", value |-> Null]
      [] OTHER -> [status |-> "JSONDecodeError", value |-> Null]

\* langchain Document(page_content=..., metadata={"index": i})
Document(text, i) == [page_content |-> text, index |-> i]

\* ------------------------------------------------------- exceptions
Exc(type, msg) == [type |-> type, msg |-> msg]
NoExc == Exc("none", "")
RecursionError == Exc("RecursionError", "maximum recursion depth exceeded")
TypeError == Exc("TypeError", "str expected, not NoneType")
\* what log_analysis_agent.run_sync raises
ProviderError == Exc("ModelHTTPError", "status_code: 500")
CredentialError == Exc("OpenAIError", "Incorrect API key provided")
SchemaValidationError == Exc("UnexpectedModelBehavior", "Exceeded maximum retries (1) for result validation")
\* what the embedding provider or the store raises
StoreError == Exc("ChromaError", "embedding or store call failed")

\* ---------------------------------------------- LogAnalysisResponse
Fields == {"answer", "relevant_logs", "total_logs_analyzed"}
LogAnalysisResponse(answer, relevant_logs, total) ==
    [answer |-> answer, relevant_logs |-> relevant_logs, total_logs_analyzed |-> total]
NoResponse == [absent |-> TRUE]

\* ------------------------------------------------------------ state
VARIABLES
    env,            \* os.environ["OPENAI_API_KEY"], None when unset
    storeExists,    \* the ./chroma_db collection exists
    store,          \* its chunks, in insertion order
    uploaded_file,  \* the file of the last "Process JSON Logs" click
    documents,      \* the documents list that click built
    tab1_msg,       \* the message that click ended with
    okChunks,       \* chunks handed over by ingests that succeeded
    failChunks,     \* chunks written by ingests that failed part-way
    pc,             \* position of the query handler
    question,       \* the question of the running query
    num_chunks,     \* its slider value
    relevant_docs,  \* what get_relevant_chunks returned
    search_ret,     \* how get_relevant_chunks ended: "none", "return" or an exception type
    storeAtSearch,  \* storeExists when get_relevant_chunks was entered
    tab2_msg,       \* what the query handler displayed last
    searchCalls,    \* calls of get_relevant_chunks in the running query
    agent_pc,       \* position inside analyze_logs_with_agent
    call,           \* its arguments: question, relevant_chunks, api_key
    context_logs,   \* its context_logs list
    response,       \* the LogAnalysisResponse it returned
    agent_ret,      \* "pending", "return", or "raise" when an exception reaches the caller
    caught,         \* the exception the handler received, NoExc if none
    env0,           \* env when analyze_logs_with_agent was entered
    contextCalls,   \* context assemblies in the running query
    llmCalls        \* calls of log_analysis_agent.run_sync in the running query

appVars == <<storeExists, store, uploaded_file, documents, tab1_msg, okChunks, failChunks>>
queryVars == <<pc, question, num_chunks, relevant_docs, search_ret, storeAtSearch, tab2_msg, searchCalls>>
agentVars == <<agent_pc, call, context_logs, response, agent_ret, caught, env0, contextCalls, llmCalls>>
vars == <<env, appVars, queryVars, agentVars>>

\* ------------------------------------------ analyze_logs_with_agent
\* BuildContext with the fallback branch dropping the chunk instead of wrapping it
BuildContext_DropsUndecodable(relevant_chunks) ==
    LET ok == SelectSeq(relevant_chunks, LAMBDA d : json_loads(d.page_content).status = "ok")
    IN  [i \in 1..Len(ok) |-> json_loads(ok[i].page_content).value]

\* one iteration of the loop over relevant_chunks: the decoded text, or the
\* raw_content wrapper when json.loads raises JSONDecodeError
ContextEntry(doc) ==
    LET r == json_loads(doc.page_content)
    IN  IF r.status = "ok" THEN r.value ELSE Obj("raw_content", doc.page_content)

\* context_logs after the loop
BuildContext(relevant_chunks) ==
    [i \in 1..Len(relevant_chunks) |-> ContextEntry(relevant_chunks[i])]

\* json.loads raised something the inner except clause does not catch
ContextRaises(relevant_chunks) ==
    \E i \in 1..Len(relevant_chunks) :
        json_loads(relevant_chunks[i].page_content).status \notin {"ok", "JSONDecodeError"}

\* ErrorResponse without the prefix
ErrorResponse_NoPrefix(e) ==
    [answer |-> e.msg, relevant_logs |-> <<>>, total_logs_analyzed |-> 0]

\* the response built by the except clause
ErrorResponse(e) ==
    LogAnalysisResponse("Error analyzing logs: " \o e.msg, <<>>, 0)

\* IsException narrowed to "except json.JSONDecodeError"
IsException_DecodeOnly(e) == e.type = "JSONDecodeError"

\* "except Exception": the classes that derive from Exception
IsException(e) ==
    e.type \in {"JSONDecodeError", "RecursionError", "TypeError", "ModelHTTPError",
                "OpenAIError", "UnexpectedModelBehavior", "ChromaError"}

\* an exception raised inside the try block
Raise(e) ==
    /\ caught' = e
    /\ agent_pc' = "returned"
    /\ IF IsException(e)
          THEN agent_ret' = "return" /\ response' = ErrorResponse(e)
          ELSE agent_ret' = "raise" /\ response' = NoResponse

\* entering analyze_logs_with_agent(question, relevant_chunks, api_key)
AgentEnter(q, relevant_chunks, api_key) ==
    /\ call' = [question |-> q, relevant_chunks |-> relevant_chunks, api_key |-> api_key]
    /\ agent_pc' = "context"
    /\ context_logs' = <<>>
    /\ response' = NoResponse
    /\ agent_ret' = "pending"
    /\ caught' = NoExc
    /\ env0' = env

\* what the model can send back for a prompt holding context: a conforming
\* object that cites none, one or all of the entries and reports any count,
\* or an object without total_logs_analyzed
Cited(context) ==
    {<<>>, context} \cup {<<context[i]>> : i \in 1..Len(context)}
RawOutputs(context) ==
    {LogAnalysisResponse("analysis", logs, n) :
        logs \in Cited(context), n \in 0..(Len(context) + 1)}
    \cup {[answer |-> "analysis", relevant_logs |-> <<>>]}
LlmReplies(context) ==
    {[kind |-> "output", raw |-> r, exc |-> NoExc] : r \in RawOutputs(context)}
    \cup {[kind |-> "error", raw |-> NoResponse, exc |-> e] :
            e \in {ProviderError, CredentialError}}

\* output_type=LogAnalysisResponse: the reply validates against the schema
Validates(raw) == DOMAIN raw = Fields

\* log_analysis_agent.run_sync(context_text): result.output, or the exception
run_sync(reply) ==
    IF reply.kind = "error" THEN [output |-> NoResponse, exc |-> reply.exc]
    ELSE IF Validates(reply.raw) THEN [output |-> reply.raw, exc |-> NoExc]
    ELSE [output |-> NoResponse, exc |-> SchemaValidationError]

\* lines 39-46: the loop that builds context_logs
AgentContext ==
    /\ agent_pc = "context"
    /\ contextCalls' = contextCalls + 1
    /\ IF ContextRaises(call.relevant_chunks)
          THEN Raise(RecursionError) /\ UNCHANGED context_logs
          ELSE /\ context_logs' = BuildContext(call.relevant_chunks)
               /\ agent_pc' = "credential"
               /\ UNCHANGED <<response, agent_ret, caught>>
    /\ UNCHANGED <<env, appVars, queryVars, call, env0, llmCalls>>

\* the value os.environ["OPENAI_API_KEY"] holds after line 58
SetKey(old, api_key) == api_key

\* line 58: os.environ["OPENAI_API_KEY"] = api_key
AgentSetKey ==
    /\ agent_pc = "credential"
    /\ IF call.api_key = None
          THEN Raise(TypeError) /\ UNCHANGED env
          ELSE /\ env' = SetKey(env, call.api_key)
               /\ agent_pc' = "llm"
               /\ UNCHANGED <<response, agent_ret, caught>>
    /\ UNCHANGED <<appVars, queryVars, call, context_logs, env0, contextCalls, llmCalls>>

\* lines 60-61: run_sync and return result.output
AgentRunSync ==
    /\ agent_pc = "llm"
    /\ llmCalls' = llmCalls + 1
    /\ \E reply \in LlmReplies(context_logs) :
          LET result == run_sync(reply)
          IN  IF result.exc = NoExc
                 THEN /\ response' = result.output
                      /\ agent_ret' = "return"
                      /\ agent_pc' = "returned"
                      /\ caught' = NoExc
                 ELSE Raise(result.exc)
    /\ UNCHANGED <<env, appVars, queryVars, call, context_logs, env0, contextCalls>>

\* ------------------------------- analyze_logs_with_agent on its own
Questions == {"show me errors"}
\* page_content of the chunks a caller can pass
ChunkTexts ==
    {json_dumps(x) : x \in JsonValues} \cup {"{\"level\":\"ERROR\"}", PlainText, DeepText}
ChunkLists ==
    UNION {[1..n -> {Document(t, 0) : t \in ChunkTexts}] : n \in 0..MaxChunks}

\* no file chosen in the uploader
NoFile == [present |-> FALSE, parse |-> "ok", isList |-> FALSE, items |-> <<>>, scalar |-> Null]

\* nothing uploaded, no query running
AppIdle ==
    /\ uploaded_file = NoFile /\ documents = <<>> /\ tab1_msg = ""
    /\ pc = "idle" /\ question = "" /\ num_chunks = 1 /\ relevant_docs = <<>>
    /\ search_ret = "none" /\ storeAtSearch = FALSE /\ tab2_msg = "" /\ searchCalls = 0

\* analyze_logs_with_agent is not running
AgentIdle ==
    /\ agent_pc = "idle"
    /\ call = [question |-> "", relevant_chunks |-> <<>>, api_key |-> None]
    /\ context_logs = <<>> /\ response = NoResponse /\ agent_ret = "pending"
    /\ caught = NoExc /\ env0 = None

InitAgent ==
    /\ env \in Keys \cup {None}
    /\ storeExists = FALSE /\ store = <<>> /\ okChunks = 0 /\ failChunks = 0
    /\ AppIdle
    /\ AgentIdle
    /\ contextCalls = 0 /\ llmCalls = 0

\* a caller invokes analyze_logs_with_agent with arguments of its choice
DirectCall ==
    /\ agent_pc \in {"idle", "returned"}
    /\ \E q \in Questions, chunks \in ChunkLists, api_key \in Keys \cup {None} :
          AgentEnter(q, chunks, api_key)
    /\ contextCalls' = 0
    /\ llmCalls' = 0
    /\ UNCHANGED <<env, appVars, queryVars>>

NextAgent == DirectCall \/ AgentContext \/ AgentSetKey \/ AgentRunSync

SpecAgent == InitAgent /\ [][NextAgent]_vars

\* ---------------------------------------------------- upload handler
\* what json.load(uploaded_file) can find in the chosen file
Parsed(isList, items, scalar) ==
    [present |-> TRUE, parse |-> "ok", isList |-> isList, items |-> items, scalar |-> scalar]
Arrays == UNION {[1..n -> JsonValues] : n \in 0..MaxLen}
Uploads ==
    {NoFile}
    \cup {[present |-> TRUE, parse |-> "JSONDecodeError", isList |-> FALSE, items |-> <<>>, scalar |-> Null]}
    \cup {Parsed(FALSE, <<>>, x) : x \in JsonValues \cup {Null}}
    \cup {Parsed(TRUE, a, Null) : a \in Arrays}

\* IsArray with the isinstance check left out
IsArray_Unchecked(f) == TRUE

\* isinstance(json_data, list)
IsArray(f) == f.isList

\* BuildDocuments numbering from 1
BuildDocuments_OneBased(json_data) ==
    [i \in 1..Len(json_data) |-> [page_content |-> json_dumps(json_data[i]), index |-> i]]

\* lines 50-60: one Document per element, metadata {"index": i}
BuildDocuments(json_data) ==
    [i \in 1..Len(json_data) |-> Document(json_dumps(json_data[i]), i - 1)]

\* StoreAfterIngest recreating the collection
StoreAfterIngest_Replaces(old, docs) == docs

\* the collection after Chroma.from_documents(documents, ...) succeeded
StoreAfterIngest(old, docs) == old \o docs

\* what a from_documents call that raises can have written: nothing, or a
\* proper prefix of the documents
PartialWrites(docs) ==
    {<<>>} \cup {SubSeq(docs, 1, n) : n \in 1..(Len(docs) - 1)}

\* lines 26-75: the "Process JSON Logs" button
ProcessJsonLogs ==
    /\ pc = "idle"
    /\ \E f \in Uploads :
        /\ Len(store) + Len(f.items) <= MaxStore
        /\ uploaded_file' = f
        /\ IF ~f.present
              THEN /\ tab1_msg' = "Please upload a JSON file"
                   /\ documents' = <<>>
                   /\ UNCHANGED <<storeExists, store, okChunks, failChunks>>
           ELSE IF env = None
              THEN /\ tab1_msg' = "Please enter your OpenAI API key"
                   /\ documents' = <<>>
                   /\ UNCHANGED <<storeExists, store, okChunks, failChunks>>
           ELSE IF f.parse # "ok"
              THEN /\ tab1_msg' = "Invalid JSON file"
                   /\ documents' = <<>>
                   /\ UNCHANGED <<storeExists, store, okChunks, failChunks>>
           ELSE IF ~IsArray(f)
              THEN /\ tab1_msg' = "JSON file should contain an array of objects"
                   /\ documents' = <<>>
                   /\ UNCHANGED <<storeExists, store, okChunks, failChunks>>
           ELSE /\ documents' = BuildDocuments(f.items)
                /\ \/ /\ store' = StoreAfterIngest(store, documents')
                      /\ storeExists' = TRUE
                      /\ okChunks' = okChunks + Len(documents')
                      /\ tab1_msg' = "Successfully processed"
                      /\ UNCHANGED failChunks
                   \/ \E written \in PartialWrites(documents') :
                      /\ store' = store \o written
                      /\ storeExists' \in {storeExists, TRUE}
                      /\ written # <<>> => storeExists'
                      /\ failChunks' = failChunks + Len(written)
                      /\ tab1_msg' = "Error: " \o StoreError.msg
                      /\ UNCHANGED okChunks
    \* the script run of this click shows nothing of an earlier query
    /\ question' = "" /\ num_chunks' = 1 /\ relevant_docs' = <<>>
    /\ search_ret' = "none" /\ storeAtSearch' = FALSE /\ tab2_msg' = "" /\ searchCalls' = 0
    /\ contextCalls' = 0 /\ llmCalls' = 0
    /\ UNCHANGED <<env, pc, agent_pc, call, context_logs, response, agent_ret, caught, env0>>

\* ----------------------------------------------------- query handler
AppQuestions == {"", "show me errors"}

\* vectorstore.similarity_search(question, k=k): up to k chunks of the
\* collection, most similar first (the ranking is the provider's)
SimilaritySearch(chunks, k) ==
    {[i \in 1..Len(pos) |-> chunks[pos[i]]] :
        pos \in {p \in UNION {[1..n -> 1..Len(chunks)] : n \in 0..k} :
                    \A i, j \in 1..Len(p) : i # j => p[i] # p[j]}}

\* lines 105-107: the except clause of get_relevant_chunks returns []
SearchFailed(e) == [ret |-> "return", docs |-> <<>>]

\* lines 128-129: the "Analyze Logs" button
Tab2Click ==
    /\ pc = "idle"
    /\ \E q \in AppQuestions, k \in 1..MaxK :
        IF env = None
           THEN /\ tab2_msg' = "Please set OPENAI_API_KEY environment variable"
                /\ question' = "" /\ num_chunks' = 1
                /\ UNCHANGED pc
        ELSE IF q = ""
           THEN /\ tab2_msg' = "Please enter a question"
                /\ question' = q /\ num_chunks' = k
                /\ UNCHANGED pc
        ELSE /\ tab2_msg' = ""
             /\ question' = q /\ num_chunks' = k
             /\ pc' = "search"
    /\ relevant_docs' = <<>> /\ search_ret' = "none" /\ storeAtSearch' = FALSE
    /\ searchCalls' = 0 /\ contextCalls' = 0 /\ llmCalls' = 0
    \* the script run of this click shows nothing of an earlier upload
    /\ uploaded_file' = NoFile /\ documents' = <<>> /\ tab1_msg' = ""
    /\ UNCHANGED <<env, storeExists, store, okChunks, failChunks,
                   agent_pc, call, context_logs, response, agent_ret, caught, env0>>

\* lines 78-107 called from line 132: get_relevant_chunks(question, search_api_key, k)
GetRelevantChunks ==
    /\ pc = "search"
    /\ searchCalls' = searchCalls + 1
    /\ storeAtSearch' = storeExists
    /\ \/ \E docs \in SimilaritySearch(store, num_chunks) :
            /\ relevant_docs' = docs
            /\ search_ret' = "return"
            /\ storeExists' = TRUE
            /\ UNCHANGED tab2_msg
       \/ LET r == SearchFailed(StoreError)
          IN  /\ relevant_docs' = r.docs
              /\ search_ret' = r.ret
              /\ storeExists' \in {storeExists, TRUE}
              /\ tab2_msg' = "Error fetching relevant chunks: " \o StoreError.msg
    /\ pc' = "searched"
    /\ UNCHANGED <<env, store, uploaded_file, documents, tab1_msg, okChunks, failChunks,
                   question, num_chunks, agentVars>>

\* HasDocs with the check left out
HasDocs_Unchecked(docs) == TRUE

\* line 134: "if relevant_docs:"
HasDocs(docs) == docs # <<>>

\* lines 134-137 and 154-155: call the agent, or warn that nothing was found
Tab2Branch ==
    /\ pc = "searched"
    /\ IF HasDocs(relevant_docs)
          THEN /\ AgentEnter(question, relevant_docs, env)
               /\ pc' = "analyzing"
               /\ UNCHANGED tab2_msg
          ELSE /\ tab2_msg' = "No relevant logs found for your question."
               /\ pc' = "idle"
               /\ UNCHANGED <<agent_pc, call, context_logs, response, agent_ret, caught, env0>>
    /\ UNCHANGED <<env, appVars, question, num_chunks, relevant_docs, search_ret,
                   storeAtSearch, searchCalls, contextCalls, llmCalls>>

\* lines 139-152, or lines 162-164 when the agent raised
Tab2Display ==
    /\ pc = "analyzing"
    /\ agent_pc = "returned"
    /\ tab2_msg' = IF agent_ret = "return" THEN response.answer ELSE "No ChromaDB found."
    /\ pc' = "idle"
    \* the locals of analyze_logs_with_agent are gone
    /\ agent_pc' = "idle"
    /\ call' = [question |-> "", relevant_chunks |-> <<>>, api_key |-> None]
    /\ context_logs' = <<>> /\ response' = NoResponse /\ agent_ret' = "pending"
    /\ caught' = NoExc /\ env0' = None
    /\ UNCHANGED <<env, appVars, question, num_chunks, relevant_docs, search_ret,
                   storeAtSearch, searchCalls, contextCalls, llmCalls>>

Init ==
    /\ env \in {None, "sk-A"}
    /\ storeExists = FALSE /\ store = <<>> /\ okChunks = 0 /\ failChunks = 0
    /\ AppIdle
    /\ AgentIdle
    /\ contextCalls = 0 /\ llmCalls = 0

Next ==
    \/ ProcessJsonLogs
    \/ Tab2Click
    \/ GetRelevantChunks
    \/ Tab2Branch
    \/ Tab2Display
    \/ AgentContext
    \/ AgentSetKey
    \/ AgentRunSync

Spec == Init /\ [][Next]_vars

\* ================================================================ claims
\* --- checked under SpecAgent

\* C1: analyze_logs_with_agent is total: whatever the chunks and whatever the
\* LLM call does, it returns a LogAnalysisResponse with its three fields, and
\* no exception reaches the caller.
C1_AgentIsTotal ==
    agent_pc = "returned" => (agent_ret = "return" /\ DOMAIN response = Fields)

\* a call over an undecodable chunk whose LLM call failed with a credential error
C1_Witness ==
    /\ agent_pc = "returned"
    /\ caught = CredentialError
    /\ \E i \in 1..Len(call.relevant_chunks) : call.relevant_chunks[i].page_content = PlainText

\* C2: when a step inside analyze_logs_with_agent fails, the response has
\* relevant_logs = [], total_logs_analyzed = 0 and the answer
\* "Error analyzing logs: " followed by the failure's text.
C2_ErrorDefaults ==
    (agent_pc = "returned" /\ caught # NoExc) =>
        /\ DOMAIN response = Fields
        /\ response.relevant_logs = <<>>
        /\ response.total_logs_analyzed = 0
        /\ response.answer = "Error analyzing logs: " \o caught.msg

\* the LLM output failed validation after a non-empty context was sent
C2_Witness ==
    /\ agent_pc = "returned"
    /\ caught = SchemaValidationError
    /\ Len(context_logs) > 0

\* C3: on success total_logs_analyzed equals the number of context objects
\* sent to the model, whatever the model reports.
C3_TotalIsContextCount ==
    (agent_pc = "returned" /\ agent_ret = "return" /\ caught = NoExc) =>
        response.total_logs_analyzed = Len(context_logs)

\* C8: the context list has the length and order of the retrieved chunks; entry
\* i is the decoded value of chunk i's text when the text decodes (so a
\* serialised log entry comes back as that entry), the raw_content wrapper otherwise.
C8_ContextKeepsEveryChunk ==
    (agent_pc \in {"credential", "llm"} \/ llmCalls >= 1) =>
        /\ Len(context_logs) = Len(call.relevant_chunks)
        /\ \A i \in 1..Len(call.relevant_chunks) :
              LET t == call.relevant_chunks[i].page_content
                  r == json_loads(t)
              IN  /\ r.status = "ok" => context_logs[i] = r.value
                  /\ r.status = "JSONDecodeError" => context_logs[i] = Obj("raw_content", t)
                  /\ \A x \in JsonValues : t = json_dumps(x) => context_logs[i] = x

\* a plain-text chunk followed by a JSON chunk, sent to the model
C8_Witness ==
    /\ llmCalls = 1
    /\ Len(call.relevant_chunks) = 2
    /\ call.relevant_chunks[1].page_content = PlainText
    /\ call.relevant_chunks[2].page_content = json_dumps(Obj("level", "ERROR"))

\* C9: a call of analyze_logs_with_agent leaves OPENAI_API_KEY as it was.
C9_EnvUnchanged ==
    agent_pc = "returned" => env = env0

\* --- checked under Spec

\* C4: a search with no store ends in StoreNotFoundError, not in the empty
\* list that a search without matches returns.
C4_AbsentStoreIsAnError ==
    (pc = "searched" /\ ~storeAtSearch) => search_ret = "StoreNotFoundError"

\* a parsed upload that is no array
NotAnArray(f) == f.present /\ f.parse = "ok" /\ ~f.isList

\* C5: an upload whose parsed top-level value is no array ends in the shape
\* error, builds no document and leaves the store as it was.
C5_NonArrayRejected ==
    [][(env # None /\ tab1_msg' # "" /\ NotAnArray(uploaded_file')) =>
            /\ tab1_msg' = "JSON file should contain an array of objects"
            /\ documents' = <<>>
            /\ store' = store
            /\ storeExists' = storeExists]_vars

\* a non-array upload rejected while the store holds chunks
C5_Witness ==
    /\ NotAnArray(uploaded_file)
    /\ tab1_msg = "JSON file should contain an array of objects"
    /\ storeExists
    /\ Len(store) > 0

\* C6: a successful ingest of an array of length N hands N documents to the
\* store, document i carrying the serialised i-th element and index i (from 0).
C6_OneChunkPerElement ==
    tab1_msg = "Successfully processed" =>
        LET a == uploaded_file.items
            n == Len(store) - Len(documents)
        IN  /\ Len(documents) = Len(a)
            /\ \A i \in 1..Len(a) :
                  /\ documents[i].page_content = json_dumps(a[i])
                  /\ json_loads(documents[i].page_content) = Decoded(a[i])
                  /\ documents[i].index = i - 1
            /\ n >= 0
            /\ \A i \in 1..Len(documents) : store[n + i] = documents[i]

\* a two-element array ingested
C6_Witness ==
    /\ tab1_msg = "Successfully processed"
    /\ Len(uploaded_file.items) = 2
    /\ uploaded_file.items[1] # uploaded_file.items[2]

\* C7: ingest appends: a successful ingest adds its documents after the chunks
\* already stored, no step removes or changes a stored chunk, and without a
\* failed ingest the store holds the sum of the ingested lengths.
C7_IngestIsAdditive ==
    [][/\ Len(store') >= Len(store)
       /\ SubSeq(store', 1, Len(store)) = store
       /\ tab1_msg' = "Successfully processed" => store' = store \o documents'
       /\ failChunks' = 0 => Len(store') = okChunks']_vars

\* a second successful ingest on top of an earlier one
C7_Witness ==
    /\ tab1_msg = "Successfully processed"
    /\ failChunks = 0
    /\ Len(documents) > 0
    /\ Len(store) > Len(documents)

====
